---- MODULE Spec2Model ----
(***************************************************************************)
(* Booking & consistency engine of the appointment booking system:         *)
(* the service layer (app/services/*.py) together with the PostgreSQL      *)
(* triggers of app/database_triggers.py that its UPDATE/INSERT statements  *)
(* fire.                                                                   *)
(*                                                                         *)
(* A database state is a record db of tables; every SQL statement and      *)
(* every trigger function is an operator from database states to database *)
(* states, every service method an operator built from them.  Spec runs    *)
(* whole requests one after the other; SpecConc interleaves the statements *)
(* and commits of concurrent create_appointment requests; SpecTrigger runs *)
(* a cascade one trigger statement at a time.                              *)
(*                                                                         *)
(* The session (app/db.py) is SQLAlchemy's default one: attributes expire  *)
(* on commit and are reloaded on their next use, a query flushes pending   *)
(* changes first, a flush writes time_slots rows before appointments rows, *)
(* and an UPDATE carries the absolute values of the changed attributes.    *)
(* No statement of the engine reads audit_logs, so a specification that    *)
(* does not observe the log (audited = FALSE) commits every table but it.  *)
(***************************************************************************)
EXTENDS Integers, Sequences, FiniteSets, TLC

\* ---------------------------------------------------------------- bounds
NumUsers == 2
MaxAppointments == 2
MaxDocuments == 2
MaxBookings == 4
NumRefs == 2
MaxNotifications == 2
MaxAuditLogs == 4
NumCallers == 3

\* ------------------------------------------------------- program constants
DefaultCapacity == 1
SeedCapacity == 3

\* ------------------------------------------------------------ identifiers
Users == 1..NumUsers
Refs == 1..NumRefs
\* the users of the concurrent requests, and the references they may draw
Callers == 1..NumCallers
CallerRefs == 1..NumCallers
NULL == 0

\* ids a request may name; a row exists for those in the table's DOMAIN
DepartmentIds == {1}
ServiceIds == {1, 2}
TimeSlotIds == {1, 2}

AppointmentStatus == {"PENDING", "CONFIRMED", "COMPLETED", "CANCELLED", "NO_SHOW"}
ActiveStatus == {"PENDING", "CONFIRMED"}
SeatStatus == {"PENDING", "CONFIRMED", "COMPLETED"}
TerminalStatus == {"COMPLETED", "CANCELLED", "NO_SHOW"}

Max(a, b) == IF a > b THEN a ELSE b
Min(a, b) == IF a < b THEN a ELSE b

VARIABLES departments, services, officers, users, time_slots, appointments,
          documents, notifications, audit_logs, audited, last, requests

vars == <<departments, services, officers, users, time_slots, appointments,
          documents, notifications, audit_logs, audited, last, requests>>

\* the committed database as one value
DB == [departments |-> departments, services |-> services, officers |-> officers,
       users |-> users, time_slots |-> time_slots, appointments |-> appointments,
       documents |-> documents, notifications |-> notifications,
       audit_logs |-> audit_logs]

Commit(db) ==
    /\ departments' = db.departments
    /\ services' = db.services
    /\ officers' = db.officers
    /\ users' = db.users
    /\ time_slots' = db.time_slots
    /\ appointments' = db.appointments
    /\ documents' = db.documents
    /\ notifications' = db.notifications
    /\ audit_logs' = IF audited THEN db.audit_logs ELSE audit_logs
    /\ audited' = audited

AppointmentIds(db) == 1..Len(db.appointments)
DocumentIds(db) == 1..Len(db.documents)

\* ------------------------------------------------------------- triggers

\* faulty variant of InsertAuditLog: the log keeps one record per row, so a
\* record about a row that already has one overwrites it
InsertAuditLog_upsert(db, user_id, action, table_name, record_id, old_values, new_values) ==
    LET rec == [user_id |-> user_id, action |-> action, table_name |-> table_name,
                record_id |-> record_id, old_values |-> old_values, new_values |-> new_values]
        same == {i \in DOMAIN db.audit_logs :
                   /\ db.audit_logs[i].table_name = table_name
                   /\ db.audit_logs[i].record_id = record_id}
    IN IF same = {}
       THEN [db EXCEPT !.audit_logs = Append(@, rec)]
       ELSE [db EXCEPT !.audit_logs = [i \in DOMAIN @ |-> IF i \in same THEN rec ELSE @[i]]]

\* INSERT INTO audit_logs (user_id, action, table_name, record_id, old_values,
\* new_values); a column the statement does not name is NULL
InsertAuditLog(db, user_id, action, table_name, record_id, old_values, new_values) ==
    [db EXCEPT !.audit_logs = Append(@,
        [user_id |-> user_id, action |-> action, table_name |-> table_name,
         record_id |-> record_id, old_values |-> old_values, new_values |-> new_values])]

\* AFTER INSERT ON appointments, for the new row a
handle_appointment_creation(db, a) ==
    LET row == db.appointments[a]
        ts == db.time_slots[row.time_slot_id]
        db1 == [db EXCEPT !.time_slots[row.time_slot_id] =
                  [ts EXCEPT !.current_bookings = ts.current_bookings + 1,
                             !.is_available = ~(ts.current_bookings + 1 >= ts.max_capacity)]]
    IN InsertAuditLog(db1, row.user_id, "APPOINTMENT_CREATED", "appointments", a, NULL,
                      [service_id |-> row.service_id, status |-> row.status])

\* faulty variant of handle_appointment_status_change: moves the seat but
\* writes no audit record
handle_appointment_status_change_unlogged(db, a, old, new) ==
    LET t == db.appointments[a].time_slot_id
        ts == db.time_slots[t]
    IN IF new = old THEN db
       ELSE IF new \in {"CANCELLED", "NO_SHOW"}
       THEN [db EXCEPT !.time_slots[t] =
               [ts EXCEPT !.current_bookings = Max(0, ts.current_bookings - 1),
                          !.is_available = (ts.current_bookings - 1 <= ts.max_capacity)]]
       ELSE IF new = "CONFIRMED" /\ old = "PENDING"
       THEN [db EXCEPT !.time_slots[t] =
               [ts EXCEPT !.current_bookings = ts.current_bookings + 1,
                          !.is_available = ~(ts.current_bookings + 1 >= ts.max_capacity)]]
       ELSE db

\* faulty variant of handle_appointment_status_change: a completed
\* appointment gives its seat back like a cancelled one
handle_appointment_status_change_freeing_completed(db, a, old, new) ==
    LET row == db.appointments[a]
        t == row.time_slot_id
        ts == db.time_slots[t]
        db1 == IF new \in {"CANCELLED", "NO_SHOW", "COMPLETED"}
               THEN [db EXCEPT !.time_slots[t] =
                       [ts EXCEPT !.current_bookings = Max(0, ts.current_bookings - 1),
                                  !.is_available = (ts.current_bookings - 1 <= ts.max_capacity)]]
               ELSE IF new = "CONFIRMED" /\ old = "PENDING"
               THEN [db EXCEPT !.time_slots[t] =
                       [ts EXCEPT !.current_bookings = ts.current_bookings + 1,
                                  !.is_available = ~(ts.current_bookings + 1 >= ts.max_capacity)]]
               ELSE db
    IN IF new = old THEN db
       ELSE InsertAuditLog(db1, row.user_id, "APPOINTMENT_STATUS_CHANGED", "appointments", a,
                           [status |-> old], [status |-> new])

\* AFTER UPDATE ON appointments, for row a with OLD.status = old, NEW.status = new
handle_appointment_status_change(db, a, old, new) ==
    LET row == db.appointments[a]
        t == row.time_slot_id
        ts == db.time_slots[t]
        db1 == IF new \in {"CANCELLED", "NO_SHOW"}
               THEN [db EXCEPT !.time_slots[t] =
                       [ts EXCEPT !.current_bookings = Max(0, ts.current_bookings - 1),
                                  !.is_available = (ts.current_bookings - 1 <= ts.max_capacity)]]
               ELSE IF new = "CONFIRMED" /\ old = "PENDING"
               THEN [db EXCEPT !.time_slots[t] =
                       [ts EXCEPT !.current_bookings = ts.current_bookings + 1,
                                  !.is_available = ~(ts.current_bookings + 1 >= ts.max_capacity)]]
               ELSE db
    IN IF new = old THEN db
       ELSE InsertAuditLog(db1, row.user_id, "APPOINTMENT_STATUS_CHANGED", "appointments", a,
                           [status |-> old], [status |-> new])

\* UPDATE appointments SET status = new WHERE id IN ids, with its row triggers
RECURSIVE UpdateAppointmentStatus(_, _, _)
UpdateAppointmentStatus(db, ids, new) ==
    IF ids = {} THEN db
    ELSE LET a == CHOOSE x \in ids : \A y \in ids : x <= y
             row == db.appointments[a]
             db1 == [db EXCEPT !.appointments[a].status = new]
         IN UpdateAppointmentStatus(
                handle_appointment_status_change(db1, a, row.status, new),
                ids \ {a}, new)

\* the appointments a cascade cancels: WHERE status IN ('PENDING', 'CONFIRMED')
ActiveAppointments(db) ==
    {a \in AppointmentIds(db) : db.appointments[a].status \in ActiveStatus}

\* a service trigger that resets the slots but cancels no appointment
handle_service_deactivation_slots_only(db, s, old, new) ==
    IF old /\ ~new
    THEN InsertAuditLog(
            [db EXCEPT !.time_slots =
                [t \in DOMAIN db.time_slots |->
                    IF db.time_slots[t].service_id = s
                    THEN [db.time_slots[t] EXCEPT !.is_available = TRUE, !.current_bookings = 0]
                    ELSE db.time_slots[t]]],
            NULL, "SERVICE_DEACTIVATED", "services", s, [is_active |-> old], [is_active |-> new])
    ELSE IF ~old /\ new
    THEN InsertAuditLog(db, NULL, "SERVICE_REACTIVATED", "services", s,
                        [is_active |-> old], [is_active |-> new])
    ELSE db

\* faulty variant of handle_service_deactivation: runs the cascade on every
\* update that leaves the service inactive, not on the flip only
handle_service_deactivation_unedged(db, s, old, new) ==
    IF ~new
    THEN LET OfService == {a \in ActiveAppointments(db) : db.appointments[a].service_id = s}
             db1 == UpdateAppointmentStatus(db, OfService, "CANCELLED")
             db2 == [db1 EXCEPT !.time_slots =
                      [t \in DOMAIN db1.time_slots |->
                          IF db1.time_slots[t].service_id = s
                          THEN [db1.time_slots[t] EXCEPT !.is_available = TRUE,
                                                         !.current_bookings = 0]
                          ELSE db1.time_slots[t]]]
         IN InsertAuditLog(db2, NULL, "SERVICE_DEACTIVATED", "services", s,
                           [is_active |-> old], [is_active |-> new])
    ELSE IF ~old /\ new
    THEN InsertAuditLog(db, NULL, "SERVICE_REACTIVATED", "services", s,
                        [is_active |-> old], [is_active |-> new])
    ELSE db

\* AFTER UPDATE ON services, for row s
handle_service_deactivation(db, s, old, new) ==
    IF old /\ ~new
    THEN LET OfService == {a \in ActiveAppointments(db) : db.appointments[a].service_id = s}
             db1 == UpdateAppointmentStatus(db, OfService, "CANCELLED")
             db2 == [db1 EXCEPT !.time_slots =
                      [t \in DOMAIN db1.time_slots |->
                          IF db1.time_slots[t].service_id = s
                          THEN [db1.time_slots[t] EXCEPT !.is_available = TRUE,
                                                         !.current_bookings = 0]
                          ELSE db1.time_slots[t]]]
         IN InsertAuditLog(db2, NULL, "SERVICE_DEACTIVATED", "services", s,
                           [is_active |-> old], [is_active |-> new])
    ELSE IF ~old /\ new
    THEN InsertAuditLog(db, NULL, "SERVICE_REACTIVATED", "services", s,
                        [is_active |-> old], [is_active |-> new])
    ELSE db

\* UPDATE services SET is_active = new WHERE id IN ids, with its row triggers
RECURSIVE UpdateServiceActive(_, _, _)
UpdateServiceActive(db, ids, new) ==
    IF ids = {} THEN db
    ELSE LET s == CHOOSE x \in ids : \A y \in ids : x <= y
             old == db.services[s].is_active
             db1 == [db EXCEPT !.services[s].is_active = new]
         IN UpdateServiceActive(handle_service_deactivation(db1, s, old, new), ids \ {s}, new)

\* UPDATE government_officers SET is_active = new WHERE id IN ids
SetOfficers(db, ids, new) ==
    [db EXCEPT !.officers =
        [o \in DOMAIN db.officers |-> IF o \in ids
                            THEN [db.officers[o] EXCEPT !.is_active = new]
                            ELSE db.officers[o]]]

\* faulty variant of handle_department_deactivation: the reactivation also
\* puts the cancelled appointments of the department back to PENDING
handle_department_deactivation_restoring(db, d, old, new) ==
    LET InDept == {o \in DOMAIN db.officers : db.officers[o].department_id = d}
        ServicesOf == {s \in DOMAIN db.services : db.services[s].department_id = d}
        Cancelled == {a \in AppointmentIds(db) :
                        /\ db.appointments[a].service_id \in ServicesOf
                        /\ db.appointments[a].status = "CANCELLED"}
    IN
    IF old /\ ~new
    THEN UpdateAppointmentStatus(SetOfficers(UpdateServiceActive(db, ServicesOf, FALSE),
                                             InDept, FALSE),
                                 {a \in ActiveAppointments(db) :
                                     db.appointments[a].service_id \in ServicesOf},
                                 "CANCELLED")
    ELSE IF ~old /\ new
    THEN UpdateAppointmentStatus(SetOfficers(UpdateServiceActive(db, ServicesOf, TRUE),
                                             InDept, TRUE),
                                 Cancelled, "PENDING")
    ELSE db

\* AFTER UPDATE ON departments, for row d
handle_department_deactivation(db, d, old, new) ==
    LET InDept == {o \in DOMAIN db.officers : db.officers[o].department_id = d}
        ServicesOf == {s \in DOMAIN db.services : db.services[s].department_id = d}
    IN
    IF old /\ ~new
    THEN LET db1 == UpdateServiceActive(db, ServicesOf, FALSE)
             db2 == SetOfficers(db1, InDept, FALSE)
             OfDept == {a \in ActiveAppointments(db2) :
                           db2.appointments[a].service_id \in ServicesOf}
         IN InsertAuditLog(UpdateAppointmentStatus(db2, OfDept, "CANCELLED"),
                           NULL, "DEPARTMENT_DEACTIVATED", "departments", d,
                           [is_active |-> old], [is_active |-> new])
    ELSE IF ~old /\ new
    THEN InsertAuditLog(SetOfficers(UpdateServiceActive(db, ServicesOf, TRUE), InDept, TRUE),
                        NULL, "DEPARTMENT_REACTIVATED", "departments", d,
                        [is_active |-> old], [is_active |-> new])
    ELSE db

\* AFTER UPDATE ON users, for row u: user_audit_trigger, which fires before
\* user_deactivation_trigger (triggers of one event fire in name order)
log_user_changes(db, u, old_row, new_row) ==
    InsertAuditLog(db, u, "USER_UPDATED", "users", u, old_row, new_row)

\* the columns of the notifications table
NotificationColumns ==
    {"id", "user_id", "type", "title", "message", "is_read", "sent_via_email",
     "sent_via_sms", "created_at", "read_at"}

\* UPDATE notifications SET is_read = TRUE, updated_at = NOW()
\* WHERE user_id = u AND is_read = FALSE: the columns it assigns, and its effect
MarkReadColumns == {"is_read", "updated_at"}

MarkNotificationsRead(db, u) ==
    [db EXCEPT !.notifications =
        [n \in DOMAIN db.notifications |->
            IF db.notifications[n].user_id = u
            THEN [db.notifications[n] EXCEPT !.is_read = TRUE]
            ELSE db.notifications[n]]]

\* the trigger function raises "column does not exist" when it reaches a
\* statement that assigns a column the table does not have
handle_user_deactivation_raises(old, new) ==
    old /\ ~new /\ ~(MarkReadColumns \subseteq NotificationColumns)

\* AFTER UPDATE ON users, for row u
handle_user_deactivation(db, u, old, new) ==
    LET OfUser == {o \in DOMAIN db.officers : db.officers[o].user_id = u} IN
    IF old /\ ~new
    THEN LET db1 == SetOfficers(db, OfUser, FALSE)
             Booked == {a \in ActiveAppointments(db1) : db1.appointments[a].user_id = u}
         IN InsertAuditLog(
                MarkNotificationsRead(UpdateAppointmentStatus(db1, Booked, "CANCELLED"), u),
                u, "USER_DEACTIVATED", "users", u, [is_active |-> old], [is_active |-> new])
    ELSE IF ~old /\ new
    THEN InsertAuditLog(SetOfficers(db, OfUser, TRUE), u, "USER_REACTIVATED", "users", u,
                        [is_active |-> old], [is_active |-> new])
    ELSE db

\* faulty variant of handle_document_verification: confirms on any verified
\* document, without looking at the appointment's other documents
handle_document_verification_any(db, d, old, new) ==
    LET a == db.documents[d].appointment_id
        logged == InsertAuditLog(db, db.documents[d].user_id, "DOCUMENT_VERIFICATION_CHANGED",
                                 "documents", d, [is_verified |-> old], [is_verified |-> new])
    IN
    IF new = old THEN db
    ELSE IF new = TRUE /\ a /= NULL
    THEN UpdateAppointmentStatus(logged,
            {y \in AppointmentIds(db) : y = a /\ db.appointments[y].status = "PENDING"},
            "CONFIRMED")
    ELSE logged

\* AFTER UPDATE ON documents, for row d
handle_document_verification(db, d, old, new) ==
    LET a == db.documents[d].appointment_id
        logged == InsertAuditLog(db, db.documents[d].user_id, "DOCUMENT_VERIFICATION_CHANGED",
                                 "documents", d, [is_verified |-> old], [is_verified |-> new])
    IN
    IF new = old THEN db
    ELSE IF new = TRUE /\ a /= NULL
    THEN IF ~ \E x \in DocumentIds(db) :
                /\ db.documents[x].appointment_id = a
                /\ db.documents[x].is_verified = FALSE
         THEN UpdateAppointmentStatus(logged,
                {y \in AppointmentIds(db) : y = a /\ db.appointments[y].status = "PENDING"},
                "CONFIRMED")
         ELSE logged
    ELSE logged

\* -------------------------------------------------- AppointmentService

Result(db, outcome) == [db |-> db, outcome |-> outcome]

\* get_current_user: the caller's row must exist and be active
get_current_active_user(db, u) == u \in DOMAIN db.users /\ db.users[u].is_active

\* create_appointment, the service query
ServiceIsActive(db, s) == s \in DOMAIN db.services /\ db.services[s].is_active

\* faulty variant of SlotIsOffered: the query without its service filter
SlotIsOffered_any_service(db, s, t) ==
    /\ t \in DOMAIN db.time_slots
    /\ db.time_slots[t].is_available

\* create_appointment / reschedule_appointment, the time slot query
SlotIsOffered(db, s, t) ==
    /\ t \in DOMAIN db.time_slots
    /\ db.time_slots[t].service_id = s
    /\ db.time_slots[t].is_available

\* the capacity check on the loaded row
SlotIsFull(ts) == ts.current_bookings >= ts.max_capacity

\* create_appointment, the existing appointment query
HasActiveAppointment(db, u, t) ==
    \E a \in AppointmentIds(db) :
        /\ db.appointments[a].user_id = u
        /\ db.appointments[a].time_slot_id = t
        /\ db.appointments[a].status \in ActiveStatus

\* faulty variant of ReferenceTaken: the column without its unique index
ReferenceTaken_unindexed(db, ref) == FALSE

\* the unique index on appointments.booking_reference
ReferenceTaken(db, ref) ==
    \E a \in AppointmentIds(db) : db.appointments[a].booking_reference = ref

\* INSERT INTO appointments, with its row trigger
InsertAppointment(db, u, s, t, ref) ==
    handle_appointment_creation(
        [db EXCEPT !.appointments = Append(@,
            [user_id |-> u, service_id |-> s, time_slot_id |-> t,
             status |-> "PENDING", booking_reference |-> ref])],
        Len(db.appointments) + 1)

\* create_appointment, the counter update on the reloaded row and its UPDATE
UpdateSlotAfterInsert(db, t, loaded) ==
    LET cb == loaded.current_bookings + 1 IN
    [db EXCEPT !.time_slots[t] =
        [@ EXCEPT !.current_bookings = cb,
                  !.is_available = IF cb >= loaded.max_capacity /\ loaded.is_available
                                   THEN FALSE ELSE @]]

create_appointment(db, u, s, t, ref) ==
    IF ~get_current_active_user(db, u) THEN Result(db, "400_inactive_user")
    ELSE IF ~ServiceIsActive(db, s) THEN Result(db, "404_service")
    ELSE IF ~SlotIsOffered(db, s, t) THEN Result(db, "404_slot")
    ELSE IF SlotIsFull(db.time_slots[t]) THEN Result(db, "400_full")
    ELSE IF HasActiveAppointment(db, u, t) THEN Result(db, "400_duplicate")
    ELSE IF ReferenceTaken(db, ref) THEN Result(db, "400_integrity")
    ELSE LET db1 == InsertAppointment(db, u, s, t, ref)
         IN Result(UpdateSlotAfterInsert(db1, t, db1.time_slots[t]), "ok")

\* the seat release of update_appointment_status / reschedule_appointment
ReleaseSlot(db, t) ==
    LET ts == db.time_slots[t]
        cb == Max(0, ts.current_bookings - 1)
    IN [db EXCEPT !.time_slots[t] =
            [ts EXCEPT !.current_bookings = cb,
                       !.is_available = IF cb < ts.max_capacity THEN TRUE ELSE @]]

\* the seat admission of reschedule_appointment
AdmitSlot(db, t) ==
    LET ts == db.time_slots[t]
        cb == ts.current_bookings + 1
    IN [db EXCEPT !.time_slots[t] =
            [ts EXCEPT !.current_bookings = cb,
                       !.is_available = IF cb >= ts.max_capacity THEN FALSE ELSE @]]

update_appointment_status(db, a, new) ==
    IF a \notin AppointmentIds(db) THEN Result(db, "none")
    ELSE LET db1 == UpdateAppointmentStatus(db, {a}, new)
             t == db.appointments[a].time_slot_id
         IN IF new \in {"CANCELLED", "NO_SHOW"}
            THEN Result(ReleaseSlot(db1, t), "ok")
            ELSE Result(db1, "ok")

cancel_appointment(db, a, u) ==
    IF ~get_current_active_user(db, u) THEN Result(db, "400_inactive_user")
    ELSE IF a \notin AppointmentIds(db) THEN Result(db, "none")
    ELSE IF db.appointments[a].user_id /= u THEN Result(db, "403")
    ELSE IF db.appointments[a].status \notin ActiveStatus THEN Result(db, "400_status")
    ELSE update_appointment_status(db, a, "CANCELLED")

\* faulty variant of reschedule_appointment: releases the old slot before it
\* validates the new one
reschedule_appointment_release_first(db, a, t, u) ==
    IF ~get_current_active_user(db, u) THEN Result(db, "400_inactive_user")
    ELSE IF a \notin AppointmentIds(db) THEN Result(db, "none")
    ELSE IF db.appointments[a].user_id /= u THEN Result(db, "403")
    ELSE IF db.appointments[a].status \notin ActiveStatus THEN Result(db, "400_status")
    ELSE LET row == db.appointments[a]
             db0 == ReleaseSlot(db, row.time_slot_id)
         IN IF ~SlotIsOffered(db0, row.service_id, t) THEN Result(db0, "404_slot")
            ELSE IF SlotIsFull(db0.time_slots[t]) THEN Result(db0, "400_full")
            ELSE LET db1 == AdmitSlot(db0, t)
                     db2 == [db1 EXCEPT !.appointments[a].time_slot_id = t,
                                        !.appointments[a].status = "PENDING"]
                 IN Result(handle_appointment_status_change(db2, a, row.status, "PENDING"), "ok")

\* faulty variant of reschedule_appointment: issues the moved appointment
\* another booking reference
reschedule_appointment_rereferencing(db, a, t, u) ==
    IF ~get_current_active_user(db, u) THEN Result(db, "400_inactive_user")
    ELSE IF a \notin AppointmentIds(db) THEN Result(db, "none")
    ELSE IF db.appointments[a].user_id /= u THEN Result(db, "403")
    ELSE IF db.appointments[a].status \notin ActiveStatus THEN Result(db, "400_status")
    ELSE IF ~SlotIsOffered(db, db.appointments[a].service_id, t) THEN Result(db, "404_slot")
    ELSE IF SlotIsFull(db.time_slots[t]) THEN Result(db, "400_full")
    ELSE LET row == db.appointments[a]
             db1 == AdmitSlot(ReleaseSlot(db, row.time_slot_id), t)
             db2 == [db1 EXCEPT !.appointments[a].time_slot_id = t,
                                !.appointments[a].status = "PENDING",
                                !.appointments[a].booking_reference = (@ % NumRefs) + 1]
         IN Result(handle_appointment_status_change(db2, a, row.status, "PENDING"), "ok")

\* faulty variant of reschedule_appointment: checks neither the owner nor
\* the status of the appointment
reschedule_appointment_unguarded(db, a, t, u) ==
    IF ~get_current_active_user(db, u) THEN Result(db, "400_inactive_user")
    ELSE IF a \notin AppointmentIds(db) THEN Result(db, "none")
    ELSE IF ~SlotIsOffered(db, db.appointments[a].service_id, t) THEN Result(db, "404_slot")
    ELSE IF SlotIsFull(db.time_slots[t]) THEN Result(db, "400_full")
    ELSE LET row == db.appointments[a]
             db1 == AdmitSlot(ReleaseSlot(db, row.time_slot_id), t)
             db2 == [db1 EXCEPT !.appointments[a].time_slot_id = t,
                                !.appointments[a].status = "PENDING"]
         IN Result(handle_appointment_status_change(db2, a, row.status, "PENDING"), "ok")

reschedule_appointment(db, a, t, u) ==
    IF ~get_current_active_user(db, u) THEN Result(db, "400_inactive_user")
    ELSE IF a \notin AppointmentIds(db) THEN Result(db, "none")
    ELSE IF db.appointments[a].user_id /= u THEN Result(db, "403")
    ELSE IF db.appointments[a].status \notin ActiveStatus THEN Result(db, "400_status")
    ELSE IF ~SlotIsOffered(db, db.appointments[a].service_id, t) THEN Result(db, "404_slot")
    ELSE IF SlotIsFull(db.time_slots[t]) THEN Result(db, "400_full")
    ELSE LET row == db.appointments[a]
             db1 == AdmitSlot(ReleaseSlot(db, row.time_slot_id), t)
             db2 == [db1 EXCEPT !.appointments[a].time_slot_id = t,
                                !.appointments[a].status = "PENDING"]
         IN Result(handle_appointment_status_change(db2, a, row.status, "PENDING"), "ok")

\* ----------------------------------------------------- DocumentService

upload_document(db, u, a) ==
    IF ~get_current_active_user(db, u) THEN Result(db, "400_inactive_user")
    ELSE IF a /= NULL /\ ~(a \in AppointmentIds(db) /\ db.appointments[a].user_id = u)
    THEN Result(db, "404_appointment")
    ELSE Result([db EXCEPT !.documents = Append(@,
                    [user_id |-> u, appointment_id |-> a, is_verified |-> FALSE])], "ok")

\* UPDATE documents SET is_verified = new WHERE id = d, with its row trigger
UpdateDocumentVerified(db, d, new) ==
    handle_document_verification([db EXCEPT !.documents[d].is_verified = new],
                                 d, db.documents[d].is_verified, new)

verify_document(db, d) ==
    IF d \notin DocumentIds(db) THEN Result(db, "none")
    ELSE Result(UpdateDocumentVerified(db, d, TRUE), "ok")

reject_document(db, d) ==
    IF d \notin DocumentIds(db) THEN Result(db, "none")
    ELSE Result(UpdateDocumentVerified(db, d, FALSE), "ok")

\* ------------------------------- UserService, DepartmentService, ServiceService

\* UPDATE users SET is_active = new WHERE id = u and its commit, with the row
\* trigger; an error raised in the trigger rolls the transaction back and is
\* not caught by the service method
UpdateUserActive(db, u, new) ==
    LET db1 == [db EXCEPT !.users[u].is_active = new] IN
    IF handle_user_deactivation_raises(db.users[u].is_active, new)
    THEN Result(db, "500")
    ELSE Result(handle_user_deactivation(log_user_changes(db1, u, db.users[u], db1.users[u]),
                                         u, db.users[u].is_active, new), "ok")

deactivate_user(db, u) ==
    IF u \notin DOMAIN db.users THEN Result(db, "404_user")
    ELSE UpdateUserActive(db, u, FALSE)

activate_user(db, u) ==
    IF u \notin DOMAIN db.users THEN Result(db, "404_user")
    ELSE UpdateUserActive(db, u, TRUE)

\* ------------------------------------------------- NotificationService

create_notification(db, u) ==
    IF u \notin DOMAIN db.users THEN Result(db, "404_user")
    ELSE Result([db EXCEPT !.notifications = Append(@,
                    [user_id |-> u, is_read |-> FALSE])], "ok")

\* UPDATE departments SET is_active = new WHERE id = d, with its row trigger
UpdateDepartmentActive(db, d, new) ==
    handle_department_deactivation([db EXCEPT !.departments[d].is_active = new],
                                   d, db.departments[d].is_active, new)

update_department(db, d, new) == Result(UpdateDepartmentActive(db, d, new), "ok")

\* faulty variant of deactivate_department: without the count of active
\* services
deactivate_department_unchecked(db, d) ==
    Result(UpdateDepartmentActive(db, d, FALSE), "ok")

deactivate_department(db, d) ==
    IF \E s \in DOMAIN db.services : db.services[s].department_id = d /\ db.services[s].is_active
    THEN Result(db, "400_active_services")
    ELSE Result(UpdateDepartmentActive(db, d, FALSE), "ok")

activate_department(db, d) == Result(UpdateDepartmentActive(db, d, TRUE), "ok")

update_service(db, s, new) == Result(UpdateServiceActive(db, {s}, new), "ok")

\* faulty variant of deactivate_service: without the count of active
\* appointments
deactivate_service_unchecked(db, s) ==
    IF s \notin DOMAIN db.services THEN Result(db, "404_service")
    ELSE Result(UpdateServiceActive(db, {s}, FALSE), "ok")

\* refuses while the service has PENDING or CONFIRMED appointments
deactivate_service(db, s) ==
    IF s \notin DOMAIN db.services THEN Result(db, "404_service")
    ELSE IF \E a \in ActiveAppointments(db) : db.appointments[a].service_id = s
    THEN Result(db, "400_active_appointments")
    ELSE Result(UpdateServiceActive(db, {s}, FALSE), "ok")

activate_service(db, s) == Result(UpdateServiceActive(db, {s}, TRUE), "ok")

\* ------------------------------------------------------------ requests

\* the latest request: the method, its arguments, the response
Call(op, args, outcome) == [op |-> op, args |-> args, outcome |-> outcome]

WithinBounds(db) ==
    /\ Len(db.appointments) <= MaxAppointments
    /\ Len(db.documents) <= MaxDocuments
    /\ Len(db.notifications) <= MaxNotifications
    /\ audited => Len(db.audit_logs) <= MaxAuditLogs
    /\ \A t \in DOMAIN db.time_slots : db.time_slots[t].current_bookings <= MaxBookings

Respond(op, args, r) ==
    /\ WithinBounds(r.db)
    /\ Commit(r.db)
    /\ last' = Call(op, args, r.outcome)
    /\ UNCHANGED requests

\* the stored tables before the first request: userRows[u] is the is_active
\* flag of user u, serviceRows[s] the department of service s,
\* slotRows[t] = <<service, max_capacity>>, officerRows[o] = <<user, department>>;
\* an officer role is active when its user is
InitDB(userRows, serviceRows, slotRows, officerRows) ==
    /\ departments = [d \in DepartmentIds |-> [is_active |-> TRUE]]
    /\ services = [s \in 1..Len(serviceRows) |->
                      [department_id |-> serviceRows[s], is_active |-> TRUE]]
    /\ officers = [o \in 1..Len(officerRows) |->
                      [user_id |-> officerRows[o][1], department_id |-> officerRows[o][2],
                       is_active |-> userRows[officerRows[o][1]]]]
    /\ users = [u \in DOMAIN userRows |-> [is_active |-> userRows[u]]]
    /\ time_slots = [t \in 1..Len(slotRows) |->
                      [service_id |-> slotRows[t][1], max_capacity |-> slotRows[t][2],
                       current_bookings |-> 0, is_available |-> TRUE]]
    /\ appointments = <<>>
    /\ documents = <<>>
    /\ notifications = <<>>
    /\ audit_logs = <<>>
    /\ last = Call("none", <<>>, "none")

Book(u, s, t, ref) ==
    Respond("create_appointment", <<u, s, t>>, create_appointment(DB, u, s, t, ref))

Transition(a, new) ==
    Respond("update_appointment_status", <<a, new>>, update_appointment_status(DB, a, new))

Cancel(a, u) ==
    Respond("cancel_appointment", <<a, u>>, cancel_appointment(DB, a, u))

Reschedule(a, t, u) ==
    Respond("reschedule_appointment", <<a, t, u>>, reschedule_appointment(DB, a, t, u))

Upload(u, a) ==
    Respond("upload_document", <<u, a>>, upload_document(DB, u, a))

Verify(d) ==
    Respond("verify_document", <<d>>, verify_document(DB, d))

Reject(d) ==
    Respond("reject_document", <<d>>, reject_document(DB, d))

DeactivateUser(u) ==
    Respond("deactivate_user", <<u>>, deactivate_user(DB, u))

ActivateUser(u) ==
    Respond("activate_user", <<u>>, activate_user(DB, u))

UpdateDepartment(d, new) ==
    Respond("update_department", <<d, new>>, update_department(DB, d, new))

DeactivateDepartment(d) ==
    Respond("deactivate_department", <<d>>, deactivate_department(DB, d))

ActivateDepartment(d) ==
    Respond("activate_department", <<d>>, activate_department(DB, d))

UpdateService(s, new) ==
    Respond("update_service", <<s, new>>, update_service(DB, s, new))

DeactivateService(s) ==
    Respond("deactivate_service", <<s>>, deactivate_service(DB, s))

ActivateService(s) ==
    Respond("activate_service", <<s>>, activate_service(DB, s))

AdmissionRequest ==
    \/ \E u \in DOMAIN users, s \in ServiceIds, t \in TimeSlotIds, ref \in Refs : Book(u, s, t, ref)
    \/ \E a \in 1..MaxAppointments, new \in AppointmentStatus : Transition(a, new)

BookingRequest ==
    \/ AdmissionRequest
    \/ \E a \in 1..MaxAppointments, u \in DOMAIN users : Cancel(a, u)
    \/ \E a \in 1..MaxAppointments, t \in TimeSlotIds, u \in DOMAIN users : Reschedule(a, t, u)

DocumentRequest ==
    \/ \E u \in DOMAIN users, a \in 0..MaxAppointments : Upload(u, a)
    \/ \E d \in 1..MaxDocuments : Verify(d)
    \/ \E d \in 1..MaxDocuments : Reject(d)

Notify(u) ==
    Respond("create_notification", <<u>>, create_notification(DB, u))

ActivationRequest ==
    \/ \E u \in DOMAIN users : DeactivateUser(u)
    \/ \E u \in DOMAIN users : ActivateUser(u)

UserRequest ==
    \/ ActivationRequest
    \/ \E u \in DOMAIN users : Notify(u)

DepartmentRequest ==
    \/ \E d \in DepartmentIds, new \in BOOLEAN : UpdateDepartment(d, new)
    \/ \E d \in DepartmentIds : DeactivateDepartment(d)
    \/ \E d \in DepartmentIds : ActivateDepartment(d)

CascadeRequest ==
    \/ DepartmentRequest
    \/ \E s \in DOMAIN services, new \in BOOLEAN : UpdateService(s, new)
    \/ \E s \in ServiceIds : DeactivateService(s)
    \/ \E s \in DOMAIN services : ActivateService(s)

\* one service with a default and a seeded slot
Init ==
    /\ InitDB([u \in Users |-> TRUE], <<1>>,
              <<<<1, DefaultCapacity>>, <<1, SeedCapacity>>>>, <<>>)
    /\ audited = FALSE
    /\ requests = <<>>

Next == BookingRequest

Spec == Init /\ [][Next]_vars

\* two services of one department, one slot each, one officer
InitCascade ==
    /\ InitDB([u \in {1} |-> TRUE], <<1, 1>>,
              <<<<1, DefaultCapacity>>, <<2, DefaultCapacity>>>>, <<<<1, 1>>>>)
    /\ audited = FALSE
    /\ requests = <<>>

NextCascade == AdmissionRequest \/ CascadeRequest

SpecCascade == InitCascade /\ [][NextCascade]_vars

InitDoc ==
    /\ InitDB([u \in {1} |-> TRUE], <<1>>, <<<<1, SeedCapacity>>>>, <<>>)
    /\ audited = FALSE
    /\ requests = <<>>

NextDoc == AdmissionRequest \/ DocumentRequest

SpecDoc == InitDoc /\ [][NextDoc]_vars

\* one service with a seeded slot, user 1 also an officer, each user row
\* stored active or inactive
InitUser ==
    /\ \E active \in [Users -> BOOLEAN] :
          InitDB(active, <<1>>, <<<<1, SeedCapacity>>>>, <<<<1, 1>>>>)
    /\ audited = FALSE
    /\ requests = <<>>

NextUser == AdmissionRequest \/ UserRequest

SpecUser == InitUser /\ [][NextUser]_vars

\* one department with one service, one seeded slot and one officer, whose
\* user row is stored active or inactive
InitRestore ==
    /\ \E active \in BOOLEAN :
          InitDB([u \in {1} |-> active], <<1>>, <<<<1, SeedCapacity>>>>, <<<<1, 1>>>>)
    /\ audited = FALSE
    /\ requests = <<>>

NextRestore == AdmissionRequest \/ DepartmentRequest \/ ActivationRequest

SpecRestore == InitRestore /\ [][NextRestore]_vars

\* the audit log observed: one department with one service and one seeded
\* slot, one user; the booking, document and cascade requests, as long as the
\* log is short
InitAudit ==
    /\ InitDB([u \in {1} |-> TRUE], <<1>>,
              <<<<1, SeedCapacity>>>>, <<>>)
    /\ audited = TRUE
    /\ requests = <<>>

NextAudit == BookingRequest \/ DocumentRequest \/ CascadeRequest

SpecAudit == InitAudit /\ [][NextAudit]_vars

\* two services of one department, the first with two slots and the second
\* with one, and one user
InitSlots ==
    /\ InitDB([u \in {1} |-> TRUE], <<1, 1>>,
              <<<<1, DefaultCapacity>>, <<1, SeedCapacity>>, <<2, DefaultCapacity>>>>, <<>>)
    /\ audited = FALSE
    /\ requests = <<>>

NextSlots ==
    \/ \E u \in DOMAIN users, s \in DOMAIN services, t \in DOMAIN time_slots,
          ref \in Refs : Book(u, s, t, ref)
    \/ \E a \in 1..MaxAppointments, u \in DOMAIN users : Cancel(a, u)
    \/ \E a \in 1..MaxAppointments, t \in DOMAIN time_slots, u \in DOMAIN users :
          Reschedule(a, t, u)

SpecSlots == InitSlots /\ [][NextSlots]_vars

\* every activation request with the audit log observed: one department with
\* one service, one seeded slot and one officer, whose user row is stored
\* active or inactive
InitEdge ==
    /\ \E active \in BOOLEAN :
          InitDB([u \in {1} |-> active], <<1>>, <<<<1, SeedCapacity>>>>, <<<<1, 1>>>>)
    /\ audited = TRUE
    /\ requests = <<>>

NextEdge == AdmissionRequest \/ CascadeRequest \/ UserRequest

SpecEdge == InitEdge /\ [][NextEdge]_vars

\* --------------------------------- a cascade, one statement at a time

\* an invocation of a row trigger: function fn for row id, with the OLD and
\* NEW values of the column it watches, about to run its statement pc; depth
\* counts the trigger invocations between it and the request's own UPDATE
TriggerFrame(fn, id, old, new, depth) ==
    [fn |-> fn, id |-> id, old |-> old, new |-> new, pc |-> 1, depth |-> depth]

\* the rows of a statement in the order their row triggers fire
RECURSIVE Ascending(_)
Ascending(ids) ==
    IF ids = {} THEN <<>>
    ELSE LET x == CHOOSE y \in ids : \A z \in ids : y <= z
         IN <<x>> \o Ascending(ids \ {x})

\* the statements a trigger function runs for its row, each named by the
\* table it writes; handle_appointment_status_change writes the slot and the
\* audit row in one step, neither table having a trigger
Statements(f) ==
    CASE f.fn = "handle_department_deactivation" ->
            IF f.old /\ ~f.new
            THEN <<"services", "government_officers", "appointments", "audit_logs">>
            ELSE IF ~f.old /\ f.new
            THEN <<"services", "government_officers", "audit_logs">>
            ELSE <<>>
      [] f.fn = "handle_service_deactivation" ->
            IF f.old /\ ~f.new THEN <<"appointments", "time_slots", "audit_logs">>
            ELSE IF ~f.old /\ f.new THEN <<"audit_logs">>
            ELSE <<>>
      [] f.fn = "handle_appointment_status_change" ->
            IF f.new /= f.old THEN <<"time_slots">> ELSE <<>>
      [] f.fn = "log_user_changes" -> <<"audit_logs">>
      [] f.fn = "handle_user_deactivation" ->
            IF f.old /\ ~f.new
            THEN <<"government_officers", "appointments", "notifications", "audit_logs">>
            ELSE IF ~f.old /\ f.new THEN <<"government_officers", "audit_logs">>
            ELSE <<>>
      [] f.fn = "handle_document_verification" ->
            IF f.new /= f.old THEN <<"audit_logs", "appointments">> ELSE <<>>

\* the outcome of one statement: the tables, the row triggers it fires, and
\* whether it raised an error
Ran(db, fired) == [db |-> db, fired |-> fired, raised |-> FALSE]

\* faulty variant of RunUpdateAppointments: the statement also touches the
\* service row of every appointment it changes, which fires
\* service_deactivation_trigger again
RunUpdateAppointments_touching_service(db, ids, new, depth) ==
    LET rows == Ascending(ids) IN
    Ran([db EXCEPT !.appointments =
            [a \in DOMAIN db.appointments |->
                IF a \in ids THEN [db.appointments[a] EXCEPT !.status = new]
                ELSE db.appointments[a]]],
        [i \in 1..Len(rows) |->
            TriggerFrame("handle_appointment_status_change", rows[i],
                         db.appointments[rows[i]].status, new, depth + 1)]
        \o [i \in 1..Len(rows) |->
            TriggerFrame("handle_service_deactivation", db.appointments[rows[i]].service_id,
                         db.services[db.appointments[rows[i]].service_id].is_active,
                         db.services[db.appointments[rows[i]].service_id].is_active,
                         depth + 1)])

\* UPDATE appointments SET status = new WHERE id IN ids: every row fires
\* appointment_status_change_trigger
RunUpdateAppointments(db, ids, new, depth) ==
    LET rows == Ascending(ids) IN
    Ran([db EXCEPT !.appointments =
            [a \in DOMAIN db.appointments |->
                IF a \in ids THEN [db.appointments[a] EXCEPT !.status = new]
                ELSE db.appointments[a]]],
        [i \in 1..Len(rows) |->
            TriggerFrame("handle_appointment_status_change", rows[i],
                         db.appointments[rows[i]].status, new, depth + 1)])

\* UPDATE services SET is_active = new WHERE id IN ids: every row fires
\* service_deactivation_trigger
RunUpdateServices(db, ids, new, depth) ==
    LET rows == Ascending(ids) IN
    Ran([db EXCEPT !.services =
            [s \in DOMAIN db.services |->
                IF s \in ids THEN [db.services[s] EXCEPT !.is_active = new]
                ELSE db.services[s]]],
        [i \in 1..Len(rows) |->
            TriggerFrame("handle_service_deactivation", rows[i],
                         db.services[rows[i]].is_active, new, depth + 1)])

\* the audit row of a flip of is_active
RunInsertFlipLog(db, f, user_id, action, table_name) ==
    Ran(InsertAuditLog(db, user_id, action, table_name, f.id,
                       [is_active |-> f.old], [is_active |-> f.new]), <<>>)

\* a statement of handle_department_deactivation
RunDepartmentStatement(db, f, table) ==
    LET ServicesOf == {s \in DOMAIN db.services : db.services[s].department_id = f.id}
        InDept == {o \in DOMAIN db.officers : db.officers[o].department_id = f.id}
    IN CASE table = "services" -> RunUpdateServices(db, ServicesOf, f.new, f.depth)
         [] table = "government_officers" -> Ran(SetOfficers(db, InDept, f.new), <<>>)
         [] table = "appointments" ->
                RunUpdateAppointments(db,
                    {a \in ActiveAppointments(db) :
                        db.appointments[a].service_id \in ServicesOf},
                    "CANCELLED", f.depth)
         [] table = "audit_logs" ->
                RunInsertFlipLog(db, f, NULL,
                    IF f.new THEN "DEPARTMENT_REACTIVATED" ELSE "DEPARTMENT_DEACTIVATED",
                    "departments")

\* a statement of handle_service_deactivation
RunServiceStatement(db, f, table) ==
    CASE table = "appointments" ->
            RunUpdateAppointments(db,
                {a \in ActiveAppointments(db) : db.appointments[a].service_id = f.id},
                "CANCELLED", f.depth)
      [] table = "time_slots" ->
            Ran([db EXCEPT !.time_slots =
                    [t \in DOMAIN db.time_slots |->
                        IF db.time_slots[t].service_id = f.id
                        THEN [db.time_slots[t] EXCEPT !.is_available = TRUE,
                                                      !.current_bookings = 0]
                        ELSE db.time_slots[t]]], <<>>)
      [] table = "audit_logs" ->
            RunInsertFlipLog(db, f, NULL,
                IF f.new THEN "SERVICE_REACTIVATED" ELSE "SERVICE_DEACTIVATED",
                "services")

\* a statement of handle_user_deactivation; the UPDATE of notifications
\* raises when it names a column the table does not have
RunUserStatement(db, f, table) ==
    LET OfUser == {o \in DOMAIN db.officers : db.officers[o].user_id = f.id} IN
    CASE table = "government_officers" -> Ran(SetOfficers(db, OfUser, f.new), <<>>)
      [] table = "appointments" ->
            RunUpdateAppointments(db,
                {a \in ActiveAppointments(db) : db.appointments[a].user_id = f.id},
                "CANCELLED", f.depth)
      [] table = "notifications" ->
            IF MarkReadColumns \subseteq NotificationColumns
            THEN Ran(MarkNotificationsRead(db, f.id), <<>>)
            ELSE [db |-> db, fired |-> <<>>, raised |-> TRUE]
      [] table = "audit_logs" ->
            RunInsertFlipLog(db, f, f.id,
                IF f.new THEN "USER_REACTIVATED" ELSE "USER_DEACTIVATED", "users")

\* a statement of handle_document_verification
RunDocumentStatement(db, f, table) ==
    LET a == db.documents[f.id].appointment_id IN
    CASE table = "audit_logs" ->
            Ran(InsertAuditLog(db, db.documents[f.id].user_id,
                    "DOCUMENT_VERIFICATION_CHANGED", "documents", f.id,
                    [is_verified |-> f.old], [is_verified |-> f.new]), <<>>)
      [] table = "appointments" ->
            IF /\ f.new = TRUE
               /\ a /= NULL
               /\ ~ \E x \in DocumentIds(db) :
                     /\ db.documents[x].appointment_id = a
                     /\ db.documents[x].is_verified = FALSE
            THEN RunUpdateAppointments(db,
                    {y \in AppointmentIds(db) :
                        y = a /\ db.appointments[y].status = "PENDING"},
                    "CONFIRMED", f.depth)
            ELSE Ran(db, <<>>)

\* statement f.pc of trigger invocation f
RunStatement(db, f) ==
    LET table == Statements(f)[f.pc] IN
    CASE f.fn = "handle_department_deactivation" -> RunDepartmentStatement(db, f, table)
      [] f.fn = "handle_service_deactivation" -> RunServiceStatement(db, f, table)
      [] f.fn = "handle_appointment_status_change" ->
            Ran(handle_appointment_status_change(db, f.id, f.old, f.new), <<>>)
      [] f.fn = "log_user_changes" ->
            Ran(log_user_changes(db, f.id, [is_active |-> f.old], [is_active |-> f.new]),
                <<>>)
      [] f.fn = "handle_user_deactivation" -> RunUserStatement(db, f, table)
      [] f.fn = "handle_document_verification" -> RunDocumentStatement(db, f, table)

\* the request's own UPDATE: the row it changes and the triggers of that row
\* (on users, user_audit_trigger before user_deactivation_trigger)
FirstUpdate(db, op, args) ==
    CASE op = "update_department" ->
            Ran([db EXCEPT !.departments[args[1]].is_active = args[2]],
                <<TriggerFrame("handle_department_deactivation", args[1],
                               db.departments[args[1]].is_active, args[2], 0)>>)
      [] op = "update_service" ->
            Ran([db EXCEPT !.services[args[1]].is_active = args[2]],
                <<TriggerFrame("handle_service_deactivation", args[1],
                               db.services[args[1]].is_active, args[2], 0)>>)
      [] op \in {"deactivate_user", "activate_user"} ->
            LET new == (op = "activate_user") IN
            Ran([db EXCEPT !.users[args[1]].is_active = new],
                <<TriggerFrame("log_user_changes", args[1],
                               db.users[args[1]].is_active, new, 0),
                  TriggerFrame("handle_user_deactivation", args[1],
                               db.users[args[1]].is_active, new, 0)>>)
      [] op \in {"verify_document", "reject_document"} ->
            LET new == (op = "verify_document") IN
            Ran([db EXCEPT !.documents[args[1]].is_verified = new],
                <<TriggerFrame("handle_document_verification", args[1],
                               db.documents[args[1]].is_verified, new, 0)>>)

Idle == [phase |-> "idle"]

\* requests answered one after the other while no cascade is in progress:
\* bookings, each with a reference of its own, and documents of appointments
TriggerSetup ==
    /\ requests.phase = "idle"
    /\ \/ \E u \in DOMAIN users, s \in DOMAIN services, t \in DOMAIN time_slots :
             Book(u, s, t, Len(appointments) + 1)
       \/ \E u \in DOMAIN users, a \in AppointmentIds(DB) : Upload(u, a)

\* a request runs its UPDATE in a transaction tx; stack holds the trigger
\* invocations in progress, the running one first
BeginCascade(op, args) ==
    LET r == FirstUpdate(DB, op, args) IN
    /\ requests.phase = "idle"
    /\ requests' = [phase |-> "cascade", op |-> op, args |-> args,
                    tx |-> r.db, stack |-> r.fired, raised |-> FALSE]
    /\ UNCHANGED last
    /\ Commit(DB)

\* the running trigger invocation runs its next statement, whose row triggers
\* run before the statement after it; a finished invocation returns; an
\* error ends every invocation of the transaction
TriggerStep ==
    /\ requests.phase = "cascade"
    /\ requests.stack /= <<>>
    /\ LET f == Head(requests.stack) IN
       IF f.pc > Len(Statements(f))
       THEN requests' = [requests EXCEPT !.stack = Tail(@)]
       ELSE LET r == RunStatement(requests.tx, f) IN
            IF r.raised
            THEN requests' = [requests EXCEPT !.stack = <<>>, !.raised = TRUE]
            ELSE requests' = [requests EXCEPT
                    !.tx = r.db,
                    !.stack = r.fired \o <<[f EXCEPT !.pc = @ + 1]>> \o Tail(@)]
    /\ UNCHANGED last
    /\ Commit(DB)

\* the commit of the request, or the rollback after an error
EndCascade ==
    /\ requests.phase = "cascade"
    /\ requests.stack = <<>>
    /\ requests' = Idle
    /\ last' = Call(requests.op, requests.args, IF requests.raised THEN "500" ELSE "ok")
    /\ Commit(IF requests.raised THEN DB ELSE requests.tx)

\* one department with one service, one seeded slot and one officer, whose
\* user row is stored active or inactive
InitTrigger ==
    /\ \E active \in BOOLEAN :
          InitDB([u \in {1} |-> active], <<1>>, <<<<1, SeedCapacity>>>>, <<<<1, 1>>>>)
    /\ audited = FALSE
    /\ requests = Idle

NextTrigger ==
    \/ TriggerSetup
    \/ \E d \in DOMAIN departments, new \in BOOLEAN :
          BeginCascade("update_department", <<d, new>>)
    \/ \E s \in DOMAIN services, new \in BOOLEAN :
          BeginCascade("update_service", <<s, new>>)
    \/ \E u \in DOMAIN users, op \in {"deactivate_user", "activate_user"} :
          BeginCascade(op, <<u>>)
    \/ \E d \in DocumentIds(DB), op \in {"verify_document", "reject_document"} :
          BeginCascade(op, <<d>>)
    \/ TriggerStep
    \/ EndCascade

\* a transaction in progress keeps running: nothing but the database stands
\* between a statement and the next
SpecTrigger == InitTrigger /\ [][NextTrigger]_vars /\ WF_vars(TriggerStep \/ EndCascade)

\* ------------------------------------------- concurrent create_appointment

\* one create_appointment request per user, at the statement it runs next
NewRequest(s, t) ==
    [pc |-> "service", service_id |-> s, time_slot_id |-> t, loaded |-> <<>>,
     ref |-> NULL, outcome |-> "none"]

Finish(u, outcome) ==
    /\ requests' = [requests EXCEPT ![u].pc = "done", ![u].outcome = outcome]
    /\ last' = Call("create_appointment",
                    <<u, requests[u].service_id, requests[u].time_slot_id>>, outcome)

Goto(u, pc) ==
    /\ requests' = [requests EXCEPT ![u].pc = pc]
    /\ UNCHANGED last

\* the service query
QueryService(u) ==
    /\ requests[u].pc = "service"
    /\ IF ~get_current_active_user(DB, u) THEN Finish(u, "400_inactive_user")
       ELSE IF ~ServiceIsActive(DB, requests[u].service_id) THEN Finish(u, "404_service")
       ELSE Goto(u, "slot")
    /\ Commit(DB)

\* the time slot query and the capacity check on the row it loaded
QueryTimeSlot(u) ==
    LET r == requests[u] IN
    /\ r.pc = "slot"
    /\ IF ~SlotIsOffered(DB, r.service_id, r.time_slot_id) THEN Finish(u, "404_slot")
       ELSE IF SlotIsFull(time_slots[r.time_slot_id]) THEN Finish(u, "400_full")
       ELSE /\ requests' = [requests EXCEPT ![u].pc = "existing",
                                            ![u].loaded = <<time_slots[r.time_slot_id]>>]
            /\ UNCHANGED last
    /\ Commit(DB)

\* the existing appointment query
QueryExisting(u) ==
    /\ requests[u].pc = "existing"
    /\ IF HasActiveAppointment(DB, u, requests[u].time_slot_id) THEN Finish(u, "400_duplicate")
       ELSE Goto(u, "insert")
    /\ Commit(DB)

\* generate_booking_reference, the INSERT and its commit
InsertAndCommit(u, ref) ==
    LET r == requests[u] IN
    /\ r.pc = "insert"
    /\ IF ReferenceTaken(DB, ref)
       THEN /\ requests' = [requests EXCEPT ![u].pc = "done", ![u].ref = ref,
                                            ![u].outcome = "400_integrity"]
            /\ last' = Call("create_appointment", <<u, r.service_id, r.time_slot_id>>,
                            "400_integrity")
            /\ Commit(DB)
       ELSE /\ requests' = [requests EXCEPT ![u].pc = "reload", ![u].ref = ref]
            /\ UNCHANGED last
            /\ Commit(InsertAppointment(DB, u, r.service_id, r.time_slot_id, ref))

\* the reload of the expired time slot row
ReloadTimeSlot(u) ==
    /\ requests[u].pc = "reload"
    /\ requests' = [requests EXCEPT ![u].pc = "update",
                                    ![u].loaded = <<time_slots[requests[u].time_slot_id]>>]
    /\ UNCHANGED last
    /\ Commit(DB)

\* the UPDATE of the time slot row and its commit
UpdateTimeSlotAndCommit(u) ==
    LET r == requests[u] IN
    /\ r.pc = "update"
    /\ Finish(u, "ok")
    /\ Commit(UpdateSlotAfterInsert(DB, r.time_slot_id, r.loaded[1]))

InitConc ==
    /\ InitDB([u \in Callers |-> TRUE], <<1>>,
              <<<<1, DefaultCapacity>>, <<1, SeedCapacity>>>>, <<>>)
    /\ audited = FALSE
    /\ requests \in [Callers -> {NewRequest(1, t) : t \in TimeSlotIds}]

NextConc ==
    \/ \E u \in Callers : QueryService(u)
    \/ \E u \in Callers : QueryTimeSlot(u)
    \/ \E u \in Callers : QueryExisting(u)
    \/ \E u \in Callers, ref \in CallerRefs : InsertAndCommit(u, ref)
    \/ \E u \in Callers : ReloadTimeSlot(u)
    \/ \E u \in Callers : UpdateTimeSlotAndCommit(u)

SpecConc == InitConc /\ [][NextConc]_vars

\* the storage fails under a statement or a commit of the try block: the
\* exception is not an IntegrityError, so it leaves create_appointment as an
\* error response, and the session discards the transaction in progress
StorageFailure(u) ==
    /\ requests[u].pc \in {"insert", "reload", "update"}
    /\ Finish(u, "500")
    /\ Commit(DB)

NextFail == NextConc \/ \E u \in Callers : StorageFailure(u)

SpecFail == InitConc /\ [][NextFail]_vars

\* ------------- a department deactivation racing with activate_service

\* the two requests in flight: a deactivation of department d through method
\* op, and activate_service(s); start is the database both were issued against
NewRace(op, d, s) ==
    [phase |-> "race", start |-> DB,
     department |-> [op |-> op, id |-> d, pc |-> "load", loaded |-> <<>>, outcome |-> "none"],
     service |-> [id |-> s, pc |-> "load", loaded |-> <<>>, outcome |-> "none"]]

\* requests issued one after the other before the race begins
RaceSetup ==
    /\ requests.phase = "setup"
    /\ \/ \E u \in DOMAIN users, s \in DOMAIN services, t \in DOMAIN time_slots,
             ref \in Refs : Book(u, s, t, ref)
       \/ \E s \in DOMAIN services, new \in BOOLEAN : UpdateService(s, new)

BeginRace(op, d, s) ==
    /\ requests.phase = "setup"
    /\ requests' = NewRace(op, d, s)
    /\ UNCHANGED last
    /\ Commit(DB)

\* get_department_by_id and, in deactivate_department, the count of the
\* department's active services
LoadDepartment ==
    LET r == requests.department IN
    /\ requests.phase = "race"
    /\ r.pc = "load"
    /\ IF /\ r.op = "deactivate_department"
          /\ \E s \in DOMAIN services :
                services[s].department_id = r.id /\ services[s].is_active
       THEN /\ requests' = [requests EXCEPT !.department.pc = "done",
                                            !.department.outcome = "400_active_services"]
            /\ last' = Call(r.op, <<r.id>>, "400_active_services")
       ELSE /\ requests' = [requests EXCEPT !.department.pc = "write",
                                            !.department.loaded = <<departments[r.id]>>]
            /\ UNCHANGED last
    /\ Commit(DB)

\* department.is_active = False and the commit: the UPDATE names is_active
\* only when the value differs from the loaded one
WriteDepartment ==
    LET r == requests.department IN
    /\ requests.phase = "race"
    /\ r.pc = "write"
    /\ requests' = [requests EXCEPT !.department.pc = "done", !.department.outcome = "ok"]
    /\ last' = Call(r.op, <<r.id>>, "ok")
    /\ IF r.loaded[1].is_active
       THEN Commit(UpdateDepartmentActive(DB, r.id, FALSE))
       ELSE Commit(DB)

\* get_service_by_id
LoadService ==
    LET r == requests.service IN
    /\ requests.phase = "race"
    /\ r.pc = "load"
    /\ requests' = [requests EXCEPT !.service.pc = "write",
                                    !.service.loaded = <<services[r.id]>>]
    /\ UNCHANGED last
    /\ Commit(DB)

\* service.is_active = True and the commit
WriteService ==
    LET r == requests.service IN
    /\ requests.phase = "race"
    /\ r.pc = "write"
    /\ requests' = [requests EXCEPT !.service.pc = "done", !.service.outcome = "ok"]
    /\ last' = Call("activate_service", <<r.id>>, "ok")
    /\ IF r.loaded[1].is_active
       THEN Commit(DB)
       ELSE Commit(UpdateServiceActive(DB, {r.id}, TRUE))

\* one department with one service, one seeded slot and one officer
InitRace ==
    /\ InitDB([u \in {1} |-> TRUE], <<1>>, <<<<1, SeedCapacity>>>>, <<<<1, 1>>>>)
    /\ audited = FALSE
    /\ requests = [phase |-> "setup"]

NextRace ==
    \/ RaceSetup
    \/ \E op \in {"update_department", "deactivate_department"},
          d \in DOMAIN departments, s \in DOMAIN services : BeginRace(op, d, s)
    \/ LoadDepartment
    \/ WriteDepartment
    \/ LoadService
    \/ WriteService

SpecRace == InitRace /\ [][NextRace]_vars

\* ------------------------------------------------------------ properties

\* the status graph: the edges a transition may take
LegalEdges ==
    {<<"PENDING", "CONFIRMED">>, <<"PENDING", "CANCELLED">>,
     <<"CONFIRMED", "COMPLETED">>, <<"CONFIRMED", "CANCELLED">>,
     <<"CONFIRMED", "NO_SHOW">>}

\* the appointments that occupy a seat of slot t
SeatsHeld(t) ==
    {a \in AppointmentIds(DB) :
        appointments[a].time_slot_id = t /\ appointments[a].status \in SeatStatus}

\* C1: of the N concurrent create_appointment requests that N distinct users
\* make on one slot of capacity k, exactly min(N, k) succeed and the others
\* fail, and at no point does the slot hold more than k granted seats.
C1_ConcurrentAdmission ==
    \A t \in DOMAIN time_slots :
        LET callers == {u \in DOMAIN requests : requests[u].time_slot_id = t}
            granted == {u \in callers : requests[u].outcome = "ok"}
            k == time_slots[t].max_capacity
        IN /\ Cardinality(SeatsHeld(t)) <= k
           /\ (\A u \in callers : requests[u].pc = "done" /\ requests[u].outcome /= "400_integrity")
                => Cardinality(granted) = Min(Cardinality(callers), k)

\* C2: in every reachable state every time slot has
\* 0 <= current_bookings <= max_capacity.
C2_CapacityBounds ==
    \A t \in DOMAIN time_slots :
        /\ 0 <= time_slots[t].current_bookings
        /\ time_slots[t].current_bookings <= time_slots[t].max_capacity

\* C3: current_bookings of every time slot equals the number of appointments
\* on the slot whose status is PENDING, CONFIRMED or COMPLETED.
C3_CounterMatchesAppointments ==
    \A t \in DOMAIN time_slots :
        time_slots[t].current_bookings = Cardinality(SeatsHeld(t))

\* C4: update_appointment_status moves an appointment out of PENDING or
\* CONFIRMED only along an edge of the status graph; any other requested edge
\* leaves the status as it was.
C4_OnlyLegalEdges ==
    [][\A a \in AppointmentIds(DB) :
          (/\ last'.op = "update_appointment_status"
           /\ last'.args[1] = a
           /\ appointments[a].status \in ActiveStatus
           /\ appointments'[a].status /= appointments[a].status)
          => <<appointments[a].status, appointments'[a].status>> \in LegalEdges]_vars

\* C5: an appointment that is COMPLETED, CANCELLED or NO_SHOW never changes
\* its status again.
C5_TerminalIsFinal ==
    [][\A a \in AppointmentIds(DB) :
          appointments[a].status \in TerminalStatus
          => appointments'[a].status = appointments[a].status]_vars

\* C6: a transition to CANCELLED applied a second time in sequence to the
\* same appointment does not decrement current_bookings again.
C6_CancelIsIdempotent ==
    [][\A a \in AppointmentIds(DB) :
          (/\ last = Call("update_appointment_status", <<a, "CANCELLED">>, "ok")
           /\ last' = Call("update_appointment_status", <<a, "CANCELLED">>, "ok"))
          => time_slots' = time_slots]_vars

\* C7: a reschedule_appointment that fails because the new slot is full
\* leaves the counters and availability of both slots, and the appointment's
\* time_slot_id and status, as they were.
C7_FailedRescheduleChangesNothing ==
    [][(/\ last'.op = "reschedule_appointment"
        /\ last'.outcome \in {"404_slot", "400_full"}
        /\ last'.args[2] \in DOMAIN time_slots
        /\ SlotIsFull(time_slots[last'.args[2]]))
       => /\ time_slots' = time_slots
          /\ appointments' = appointments]_vars

\* a reschedule onto another slot, which is full, has just been rejected
C7_RescheduleOntoFullSlotRejected ==
    /\ last.op = "reschedule_appointment"
    /\ last.outcome \in {"404_slot", "400_full"}
    /\ last.args[2] \in DOMAIN time_slots
    /\ SlotIsFull(time_slots[last.args[2]])
    /\ appointments[last.args[1]].time_slot_id /= last.args[2]
    /\ time_slots[appointments[last.args[1]].time_slot_id].current_bookings > 0

\* C8: when a department goes from active to inactive, in that one step all
\* its services and officers become inactive, every PENDING or CONFIRMED
\* appointment of its services becomes CANCELLED, and every time slot of its
\* services has current_bookings = 0.
C8_DepartmentDeactivationCascade ==
    [][\A d \in DOMAIN departments :
          (departments[d].is_active /\ ~departments'[d].is_active)
          => LET ServicesOf == {s \in DOMAIN services : services[s].department_id = d} IN
             /\ \A s \in ServicesOf : ~services'[s].is_active
             /\ \A o \in DOMAIN officers :
                    officers[o].department_id = d => ~officers'[o].is_active
             /\ \A a \in AppointmentIds(DB) :
                    (appointments[a].service_id \in ServicesOf
                        /\ appointments[a].status \in ActiveStatus)
                    => appointments'[a].status = "CANCELLED"
             /\ \A t \in DOMAIN time_slots :
                    time_slots[t].service_id \in ServicesOf
                    => time_slots'[t].current_bookings = 0]_vars

\* the documents linked to appointment a, in the documents table docs
LinkedDocuments(docs, a) == {x \in 1..Len(docs) : docs[x].appointment_id = a}

\* C9: when a linked document goes from unverified to verified, its
\* appointment goes from PENDING to CONFIRMED if and only if it is PENDING
\* and all its linked documents are verified after the flip; otherwise the
\* appointment's status is unchanged.
C9_ConfirmedWhenAllDocumentsVerified ==
    [][\A d \in DocumentIds(DB) :
          (/\ ~documents[d].is_verified
           /\ documents'[d].is_verified
           /\ documents[d].appointment_id /= NULL)
          => LET a == documents[d].appointment_id
                 complete == \A x \in LinkedDocuments(documents', a) : documents'[x].is_verified
             IN /\ (appointments[a].status = "PENDING" /\ complete)
                        => appointments'[a].status = "CONFIRMED"
                /\ ~(appointments[a].status = "PENDING" /\ complete)
                        => appointments'[a].status = appointments[a].status]_vars

\* the verification of the last of two linked documents has just confirmed
\* the appointment
C9_LastDocumentVerified ==
    /\ last.op = "verify_document"
    /\ last.outcome = "ok"
    /\ \E a \in AppointmentIds(DB) :
          /\ documents[last.args[1]].appointment_id = a
          /\ appointments[a].status = "CONFIRMED"
          /\ Cardinality(LinkedDocuments(documents, a)) = 2
          /\ \A x \in LinkedDocuments(documents, a) : documents[x].is_verified

\* C10: no two appointments carry the same booking_reference, whether the
\* bookings are made one after the other or concurrently.
C10_UniqueReferences ==
    \A a, b \in AppointmentIds(DB) :
        a /= b => appointments[a].booking_reference /= appointments[b].booking_reference

\* a request that drew the reference of a committed appointment was rejected
C10_CollisionRejected ==
    \E u, v \in DOMAIN requests :
        /\ requests[u].outcome = "ok"
        /\ requests[v].outcome = "400_integrity"
        /\ requests[v].ref = requests[u].ref
        /\ \E a \in AppointmentIds(DB) : appointments[a].booking_reference = requests[v].ref

\* C11: a successful create_appointment adds exactly one appointment, PENDING
\* and referencing the caller, the service and the slot, increases that
\* slot's current_bookings by exactly 1, sets its is_available to
\* (current_bookings < max_capacity), and changes no other time slot or
\* appointment.  (The audit record is observed under SpecAudit only.)
C11_BookAdmitsOneSeat ==
    [][(last'.op = "create_appointment" /\ last'.outcome = "ok")
       => LET u == last'.args[1]
              s == last'.args[2]
              t == last'.args[3]
              n == Len(appointments)
          IN /\ Len(appointments') = n + 1
             /\ appointments'[n + 1].user_id = u
             /\ appointments'[n + 1].service_id = s
             /\ appointments'[n + 1].time_slot_id = t
             /\ appointments'[n + 1].status = "PENDING"
             /\ \A a \in 1..n : appointments'[a] = appointments[a]
             /\ time_slots'[t].current_bookings = time_slots[t].current_bookings + 1
             /\ time_slots'[t].is_available =
                    (time_slots'[t].current_bookings < time_slots'[t].max_capacity)
             /\ \A x \in DOMAIN time_slots \ {t} : time_slots'[x] = time_slots[x]]_vars

\* the responses of create_appointment by error kind: HTTP 404 and HTTP 400
NotFoundResponses == {"404_service", "404_slot"}
ConflictResponses == {"400_full", "400_duplicate"}

\* C12: create_appointment fails with NotFound when the service or the slot
\* does not exist or the slot is not of the service, with Conflict when the
\* slot is full or the caller already holds a PENDING or CONFIRMED appointment
\* on it, and with Invalid, a response that is neither of the two, when the
\* service exists but is inactive.
C12_ErrorKindsDistinguished ==
    [][(/\ last'.op = "create_appointment"
        /\ last'.outcome \in NotFoundResponses \cup ConflictResponses)
       => LET u == last'.args[1]
              s == last'.args[2]
              t == last'.args[3]
              absent == \/ s \notin DOMAIN services
                        \/ t \notin DOMAIN time_slots
                        \/ time_slots[t].service_id /= s
              inactive == s \in DOMAIN services /\ ~services[s].is_active
              conflict == /\ t \in DOMAIN time_slots
                          /\ \/ SlotIsFull(time_slots[t])
                             \/ HasActiveAppointment(DB, u, t)
          IN /\ (absent /\ ~inactive /\ ~conflict) => last'.outcome \in NotFoundResponses
             /\ (conflict /\ ~absent /\ ~inactive) => last'.outcome \in ConflictResponses
             /\ (inactive /\ ~absent /\ ~conflict)
                    => last'.outcome \notin NotFoundResponses \cup ConflictResponses]_vars

\* C13: a transition from PENDING to CONFIRMED, requested or driven by a
\* document verification, leaves current_bookings and is_available of the
\* appointment's time slot unchanged.
C13_ConfirmationKeepsCounter ==
    [][\A a \in AppointmentIds(DB) :
          (/\ appointments[a].status = "PENDING"
           /\ appointments'[a].status = "CONFIRMED")
          => LET t == appointments[a].time_slot_id
             IN /\ time_slots'[t].current_bookings = time_slots[t].current_bookings
                /\ time_slots'[t].is_available = time_slots[t].is_available]_vars

\* C14: a transition from PENDING or CONFIRMED into CANCELLED or NO_SHOW sets
\* current_bookings of the appointment's time slot to max(0, old value - 1)
\* and is_available to (current_bookings < max_capacity).
C14_ReleaseFreesOneSeat ==
    [][\A a \in AppointmentIds(DB) :
          (/\ last'.op \in {"update_appointment_status", "cancel_appointment"}
           /\ appointments[a].status \in ActiveStatus
           /\ appointments'[a].status \in {"CANCELLED", "NO_SHOW"})
          => LET t == appointments[a].time_slot_id
                 cb == Max(0, time_slots[t].current_bookings - 1)
             IN /\ time_slots'[t].current_bookings = cb
                /\ time_slots'[t].is_available = (cb < time_slots[t].max_capacity)]_vars

\* the sum of current_bookings over the time slots ids of the table ts
RECURSIVE TotalBookings(_, _)
TotalBookings(ts, ids) ==
    IF ids = {} THEN 0
    ELSE LET t == CHOOSE x \in ids : TRUE
         IN ts[t].current_bookings + TotalBookings(ts, ids \ {t})

\* C15: a successful reschedule_appointment, in one step, decrements the old
\* slot's current_bookings by one, increments the new slot's by one, sets
\* is_available of both to (current_bookings < max_capacity), sets the
\* appointment's time_slot_id to the new slot and its status to PENDING, and
\* leaves the sum of current_bookings over all time slots unchanged.
C15_RescheduleMovesOneSeat ==
    [][(last'.op = "reschedule_appointment" /\ last'.outcome = "ok")
       => LET a == last'.args[1]
              new == last'.args[2]
              old == appointments[a].time_slot_id
              Recomputed(t) == time_slots'[t].is_available =
                    (time_slots'[t].current_bookings < time_slots'[t].max_capacity)
          IN /\ appointments'[a].time_slot_id = new
             /\ appointments'[a].status = "PENDING"
             /\ old /= new =>
                  /\ time_slots'[old].current_bookings = time_slots[old].current_bookings - 1
                  /\ time_slots'[new].current_bookings = time_slots[new].current_bookings + 1
             /\ Recomputed(old)
             /\ Recomputed(new)
             /\ TotalBookings(time_slots', DOMAIN time_slots)
                    = TotalBookings(time_slots, DOMAIN time_slots)]_vars

\* C16: reschedule_appointment is rejected, with no change to any appointment
\* or time slot, when the requester does not own the appointment or when the
\* appointment's status is not PENDING or CONFIRMED.
C16_RescheduleRejectedForStrangerOrStatus ==
    [][(/\ last'.op = "reschedule_appointment"
        /\ last'.args[1] \in AppointmentIds(DB)
        /\ \/ appointments[last'.args[1]].user_id /= last'.args[3]
           \/ appointments[last'.args[1]].status \notin ActiveStatus)
       => /\ last'.outcome \in {"403", "400_status", "400_inactive_user"}
          /\ appointments' = appointments
          /\ time_slots' = time_slots]_vars

\* a user other than the owner has just been refused the reschedule of an
\* active appointment onto a slot that would have admitted it
C16_StrangerRefused ==
    /\ last.op = "reschedule_appointment"
    /\ last.outcome = "403"
    /\ LET a == last.args[1]
           t == last.args[2]
       IN /\ appointments[a].user_id /= last.args[3]
          /\ appointments[a].status \in ActiveStatus
          /\ appointments[a].time_slot_id /= t
          /\ SlotIsOffered(DB, appointments[a].service_id, t)
          /\ ~SlotIsFull(time_slots[t])

\* C17: in every reachable state a user has at most one PENDING or CONFIRMED
\* appointment on any given time slot.
C17_OneActiveAppointmentPerUserAndSlot ==
    \A a, b \in AppointmentIds(DB) :
        (/\ a /= b
         /\ appointments[a].user_id = appointments[b].user_id
         /\ appointments[a].time_slot_id = appointments[b].time_slot_id)
        => ~(appointments[a].status \in ActiveStatus /\ appointments[b].status \in ActiveStatus)

\* the PENDING or CONFIRMED appointments of user u on slot t
ActiveOfUserOn(u, t) ==
    {a \in AppointmentIds(DB) : /\ appointments[a].user_id = u
                                /\ appointments[a].time_slot_id = t
                                /\ appointments[a].status \in ActiveStatus}

\* C18: deactivating an active user makes the user inactive, cancels each of the
\* user's PENDING or CONFIRMED appointments and releases one seat for each,
\* deactivates the user's officer role, marks the user's unread notifications
\* read, and leaves the appointments of other users unchanged.
C18_UserDeactivationCascade ==
    [][\A u \in DOMAIN users :
        (/\ last'.op = "deactivate_user"
         /\ last'.args = <<u>>
         /\ users[u].is_active)
        => /\ ~users'[u].is_active
           /\ \A a \in AppointmentIds(DB) :
                 appointments'[a] =
                    IF appointments[a].user_id = u /\ appointments[a].status \in ActiveStatus
                    THEN [appointments[a] EXCEPT !.status = "CANCELLED"]
                    ELSE appointments[a]
           /\ \A t \in DOMAIN time_slots :
                 /\ time_slots'[t].current_bookings =
                       Max(0, time_slots[t].current_bookings - Cardinality(ActiveOfUserOn(u, t)))
                 /\ ActiveOfUserOn(u, t) /= {} =>
                       time_slots'[t].is_available =
                          (time_slots'[t].current_bookings < time_slots[t].max_capacity)
           /\ \A o \in DOMAIN officers :
                 officers[o].user_id = u => ~officers'[o].is_active
           /\ \A n \in DOMAIN notifications :
                 notifications[n].user_id = u => notifications'[n].is_read]_vars

\* C19: when a service goes from active to inactive, every appointment of the
\* service that was PENDING or CONFIRMED is CANCELLED, and every time slot of
\* the service has current_bookings = 0 and is_available = TRUE.
C19_ServiceDeactivationCascade ==
    [][\A s \in DOMAIN services :
        (services[s].is_active /\ ~services'[s].is_active)
        => /\ \A a \in AppointmentIds(DB) :
                 (appointments[a].service_id = s /\ appointments[a].status \in ActiveStatus)
                 => appointments'[a].status = "CANCELLED"
           /\ \A t \in DOMAIN time_slots :
                 time_slots[t].service_id = s
                 => /\ time_slots'[t].current_bookings = 0
                    /\ time_slots'[t].is_available]_vars

\* update_service has just deactivated a service that had an appointment
\* holding a seat: the appointment is cancelled and its slot is empty and open
C19_BookedServiceDeactivated ==
    /\ last.op = "update_service"
    /\ last.outcome = "ok"
    /\ ~services[last.args[1]].is_active
    /\ \E a \in AppointmentIds(DB) :
          /\ appointments[a].service_id = last.args[1]
          /\ appointments[a].status = "CANCELLED"
          /\ time_slots[appointments[a].time_slot_id].service_id = last.args[1]
          /\ time_slots[appointments[a].time_slot_id].current_bookings = 0
          /\ time_slots[appointments[a].time_slot_id].is_available

\* C20: right after a service has gone from active to inactive, the counter of
\* every time slot of the service equals the number of appointments on the
\* slot that still hold a seat (PENDING, CONFIRMED or COMPLETED).
C20_ResetMatchesSeatHolders ==
    [][\A s \in DOMAIN services :
        (services[s].is_active /\ ~services'[s].is_active)
        => \A t \in DOMAIN time_slots :
              time_slots[t].service_id = s
              => time_slots'[t].current_bookings = Cardinality(SeatsHeld(t))']_vars

\* C21: a step that takes a user or a department from inactive to active
\* changes no appointment and no time slot: appointments cancelled by the
\* earlier deactivation stay CANCELLED, no seat is taken or released.
C21_ReactivationRestoresNoAppointment ==
    [][(\/ \E u \in DOMAIN users : ~users[u].is_active /\ users'[u].is_active
        \/ \E d \in DOMAIN departments : ~departments[d].is_active /\ departments'[d].is_active)
       => /\ appointments' = appointments
          /\ time_slots' = time_slots]_vars

\* a department has just been reactivated while an appointment of one of its
\* services, cancelled before, is still CANCELLED
C21_DepartmentBackAppointmentCancelled ==
    /\ last.op \in {"update_department", "activate_department"}
    /\ last.outcome = "ok"
    /\ departments[last.args[1]].is_active
    /\ \A s \in DOMAIN services : services[s].is_active
    /\ \E a \in AppointmentIds(DB) :
          /\ services[appointments[a].service_id].department_id = last.args[1]
          /\ appointments[a].status = "CANCELLED"

\* C22: deactivating an active department and then reactivating it gives every
\* service and every officer of the department the is_active value it had
\* immediately before the deactivation.
C22_ReactivationRestoresFlags ==
    \A d \in DOMAIN departments :
        departments[d].is_active =>
            LET off == update_department(DB, d, FALSE).db
                back == update_department(off, d, TRUE).db
            IN /\ \A s \in DOMAIN services :
                     services[s].department_id = d
                     => back.services[s].is_active = services[s].is_active
               /\ \A o \in DOMAIN officers :
                     officers[o].department_id = d
                     => back.officers[o].is_active = officers[o].is_active

\* C23: in every reachable committed state every time slot has
\* is_available = TRUE exactly when current_bookings < max_capacity.
C23_AvailabilityIsDerived ==
    \A t \in DOMAIN time_slots :
        time_slots[t].is_available =
            (time_slots[t].current_bookings < time_slots[t].max_capacity)

\* C24: in every reachable committed state no PENDING or CONFIRMED appointment
\* belongs to an inactive user or to an inactive service.
C24_NoActiveAppointmentOfInactiveParent ==
    \A a \in AppointmentIds(DB) :
        appointments[a].status \in ActiveStatus
        => /\ users[appointments[a].user_id].is_active
           /\ services[appointments[a].service_id].is_active

\* C25: a create_appointment that returns an error leaves the committed state
\* as it was before the call: whatever the step at which it failed, no
\* appointment row of the caller and no seat taken for it stay behind.
C25_FailedBookingLeavesNothing ==
    \A u \in DOMAIN requests :
        (requests[u].pc = "done" /\ requests[u].outcome /= "ok")
        => \A a \in AppointmentIds(DB) : appointments[a].user_id /= u

\* C26: no committed state shows an appointment row whose seat has not been
\* counted: on every time slot current_bookings is at least the number of
\* appointment rows committed on it.
C26_CommittedRowIsCounted ==
    \A t \in DOMAIN time_slots :
        time_slots[t].current_bookings >=
            Cardinality({a \in AppointmentIds(DB) : appointments[a].time_slot_id = t})

\* the tables of two databases are the same
SameTables(db1, db2) ==
    /\ db1.departments = db2.departments
    /\ db1.services = db2.services
    /\ db1.officers = db2.officers
    /\ db1.users = db2.users
    /\ db1.time_slots = db2.time_slots
    /\ db1.appointments = db2.appointments

\* the department request of a race run alone on db
DepartmentAlone(db, r) ==
    IF r.op = "deactivate_department" THEN deactivate_department(db, r.id).db
    ELSE update_department(db, r.id, FALSE).db

\* C27: when a department deactivation and a direct activation of one of its
\* services run concurrently, the final committed state is the one that some
\* serial order of the two requests produces.
C27_RaceIsSerializable ==
    (/\ requests.phase = "race"
     /\ requests.department.pc = "done"
     /\ requests.service.pc = "done")
    => LET d == requests.department
           s == requests.service.id
           start == requests.start
       IN \/ SameTables(DB, activate_service(DepartmentAlone(start, d), s).db)
          \/ SameTables(DB, DepartmentAlone(activate_service(start, s).db, d))

\* the positions of the audit records a step has appended
Appended == (Len(audit_logs) + 1)..Len(audit_logs')

\* C28: every step that changes the status of an appointment from s to a
\* different s2 appends exactly one audit record for that appointment, and the
\* record carries old status s and new status s2.
C28_StatusChangeIsAudited ==
    [][\A a \in AppointmentIds(DB) :
        appointments'[a].status /= appointments[a].status
        => LET recs == {i \in Appended :
                          /\ audit_logs'[i].table_name = "appointments"
                          /\ audit_logs'[i].record_id = a}
           IN /\ Cardinality(recs) = 1
              /\ \A i \in recs :
                    /\ audit_logs'[i].action = "APPOINTMENT_STATUS_CHANGED"
                    /\ audit_logs'[i].old_values = [status |-> appointments[a].status]
                    /\ audit_logs'[i].new_values = [status |-> appointments'[a].status]]_vars

\* a reschedule has just reset a CONFIRMED appointment to PENDING and the last
\* audit record says so
C28_RescheduleResetAudited ==
    /\ last.op = "reschedule_appointment"
    /\ last.outcome = "ok"
    /\ audit_logs /= <<>>
    /\ LET rec == audit_logs[Len(audit_logs)] IN
          /\ rec.action = "APPOINTMENT_STATUS_CHANGED"
          /\ rec.record_id = last.args[1]
          /\ rec.old_values = [status |-> "CONFIRMED"]
          /\ rec.new_values = [status |-> "PENDING"]
          /\ appointments[last.args[1]].status = "PENDING"

\* the dependent rows a cascade has changed in a step: the appointments whose
\* status differs and the services, other than the parent, whose flag differs
Dependents(parent) ==
    {<<"appointments", a>> : a \in {b \in AppointmentIds(DB) :
                                      appointments'[b].status /= appointments[b].status}}
    \cup ({<<"services", s>> : s \in {r \in DOMAIN services :
                                      services'[r].is_active /= services[r].is_active}}
          \ {parent})

\* the appended records are the parent's record first, then one record per
\* dependent row
ParentFirst(parent, action) ==
    LET n == Len(audit_logs)
        deps == Dependents(parent)
    IN /\ Len(audit_logs') = n + Cardinality(deps) + 1
       /\ audit_logs'[n + 1].action = action
       /\ audit_logs'[n + 1].table_name = parent[1]
       /\ audit_logs'[n + 1].record_id = parent[2]
       /\ \A dep \in deps :
             Cardinality({i \in Appended \ {n + 1} :
                            /\ audit_logs'[i].table_name = dep[1]
                            /\ audit_logs'[i].record_id = dep[2]}) = 1

\* C29: a step that deactivates a department, or a service of a department
\* that stays as it is, and changes N dependent rows appends N + 1 audit
\* records: the record of the parent (DEPARTMENT_DEACTIVATED,
\* SERVICE_DEACTIVATED) first, then one record per dependent row.
C29_CascadeLogsParentFirst ==
    [][/\ \A d \in DepartmentIds :
            departments[d].is_active /\ ~departments'[d].is_active
            => ParentFirst(<<"departments", d>>, "DEPARTMENT_DEACTIVATED")
       /\ \A s \in DOMAIN services :
            /\ services[s].is_active /\ ~services'[s].is_active
            /\ departments' = departments
            => ParentFirst(<<"services", s>>, "SERVICE_DEACTIVATED")]_vars

\* C30: the audit log is append-only: every step leaves the records it found
\* in place and unchanged, so the log only grows.
C30_AuditLogAppendOnly ==
    [][/\ Len(audit_logs') >= Len(audit_logs)
       /\ SubSeq(audit_logs', 1, Len(audit_logs)) = audit_logs]_vars

\* a cascade has cancelled a booked appointment: the record of the booking is
\* still first in the log and the records of the cascade follow it
C30_CascadeAfterBooking ==
    /\ last.op \in {"update_service", "update_department"}
    /\ last.outcome = "ok"
    /\ Len(audit_logs) >= 3
    /\ audit_logs[1].action = "APPOINTMENT_CREATED"
    /\ \E i \in DOMAIN audit_logs :
          /\ audit_logs[i].action = "APPOINTMENT_STATUS_CHANGED"
          /\ audit_logs[i].record_id = audit_logs[1].record_id
          /\ audit_logs[i].new_values = [status |-> "CANCELLED"]
    /\ audit_logs[Len(audit_logs)].action \in {"SERVICE_DEACTIVATED", "DEPARTMENT_DEACTIVATED"}

\* C31: a create_appointment whose other preconditions hold (active caller,
\* active service, slot offered and not full, no active appointment of the
\* caller on the slot) succeeds even when the reference it generates is
\* already stored: the collision is retried with a fresh reference.
C31_CollisionIsRetried ==
    [][(/\ last'.op = "create_appointment"
        /\ get_current_active_user(DB, last'.args[1])
        /\ ServiceIsActive(DB, last'.args[2])
        /\ SlotIsOffered(DB, last'.args[2], last'.args[3])
        /\ ~SlotIsFull(time_slots[last'.args[3]])
        /\ ~HasActiveAppointment(DB, last'.args[1], last'.args[3]))
       => last'.outcome = "ok"]_vars

\* C32: no step changes the booking_reference of a stored appointment, and
\* no step removes the appointment.
C32_ReferenceIsImmutable ==
    [][\A a \in AppointmentIds(DB) :
        /\ a \in DOMAIN appointments'
        /\ appointments'[a].booking_reference = appointments[a].booking_reference]_vars

\* a document verification has just confirmed an appointment, which still
\* carries a reference
C32_ConfirmedByDocumentKeepsReference ==
    /\ last.op = "verify_document"
    /\ last.outcome = "ok"
    /\ audit_logs /= <<>>
    /\ LET rec == audit_logs[Len(audit_logs)] IN
          /\ rec.action = "APPOINTMENT_STATUS_CHANGED"
          /\ rec.new_values = [status |-> "CONFIRMED"]
          /\ appointments[rec.record_id].status = "CONFIRMED"
          /\ appointments[rec.record_id].booking_reference \in Refs

\* the request answered by a step asks for the activation state its target
\* already has
NoFlipRequested ==
    LET op == last'.op
        args == last'.args
    IN \/ op = "deactivate_user" /\ ~users[args[1]].is_active
       \/ op = "activate_user" /\ users[args[1]].is_active
       \/ op = "deactivate_department" /\ ~departments[args[1]].is_active
       \/ op = "activate_department" /\ departments[args[1]].is_active
       \/ op = "update_department" /\ departments[args[1]].is_active = args[2]
       \/ op = "deactivate_service" /\ args[1] \in DOMAIN services
                                   /\ ~services[args[1]].is_active
       \/ op = "activate_service" /\ services[args[1]].is_active
       \/ op = "update_service" /\ services[args[1]].is_active = args[2]

FlipActions ==
    {"USER_DEACTIVATED", "USER_REACTIVATED", "DEPARTMENT_DEACTIVATED",
     "DEPARTMENT_REACTIVATED", "SERVICE_DEACTIVATED", "SERVICE_REACTIVATED"}

\* C33: a deactivation applied to an inactive user, department or service, or
\* an activation applied to an active one, changes no officer, service,
\* appointment, time slot or notification row and appends no *_DEACTIVATED or
\* *_REACTIVATED audit record.
C33_CascadesFireOnFlipsOnly ==
    [][NoFlipRequested
       => /\ UNCHANGED <<officers, services, appointments, time_slots, notifications>>
          /\ \A i \in Appended : audit_logs'[i].action \notin FlipActions]_vars

\* deactivate_user has been answered with success, which happens only for a
\* user that was inactive already, and the update is in the log
C33_InactiveUserDeactivatedAgain ==
    /\ last.op = "deactivate_user"
    /\ last.outcome = "ok"
    /\ ~users[last.args[1]].is_active
    /\ audit_logs /= <<>>
    /\ audit_logs[Len(audit_logs)].action = "USER_UPDATED"
    /\ audit_logs[Len(audit_logs)].old_values = [is_active |-> FALSE]

\* the trigger invocations of the transaction in progress
Invocations == IF requests.phase = "cascade" THEN requests.stack ELSE <<>>

\* the trigger function of the row a request updates
OriginFunction(op) ==
    CASE op = "update_department" -> "handle_department_deactivation"
      [] op = "update_service" -> "handle_service_deactivation"
      [] op \in {"deactivate_user", "activate_user"} -> "handle_user_deactivation"
      [] op \in {"verify_document", "reject_document"} -> "handle_document_verification"

\* C34: a cascade started by one flip is at most two trigger invocations deep
\* (department -> service -> appointment, user -> appointment, document ->
\* appointment), no invocation fired by a trigger is again the trigger of the
\* row that started the cascade, and the transaction always ends: the system
\* reaches a committed state with no invocation left.
C34_CascadeIsBounded ==
    /\ [](\A i \in DOMAIN Invocations :
            /\ Invocations[i].depth <= 2
            /\ Invocations[i].depth > 0
               => Invocations[i].fn /= OriginFunction(requests.op))
    /\ (requests.phase = "cascade") ~> (requests.phase = "idle")

\* the deactivation of a department has reached the trigger of an appointment
\* through the trigger of its service
C34_TwoHopsDeep ==
    /\ requests.phase = "cascade"
    /\ requests.op = "update_department"
    /\ requests.stack /= <<>>
    /\ Head(requests.stack).fn = "handle_appointment_status_change"
    /\ Head(requests.stack).depth = 2
    /\ Len(requests.stack) = 3

\* C35: the time slot of every appointment is a slot of the appointment's
\* service.
C35_SlotOfOwnService ==
    \A a \in AppointmentIds(DB) :
        /\ appointments[a].time_slot_id \in DOMAIN time_slots
        /\ time_slots[appointments[a].time_slot_id].service_id = appointments[a].service_id

\* an appointment of the service with two slots has been moved to the other
\* slot of that service, and the other service has an appointment too
C35_RescheduledWithinService ==
    /\ last.op = "reschedule_appointment"
    /\ last.outcome = "ok"
    /\ appointments[last.args[1]].time_slot_id = last.args[2]
    /\ \E b \in AppointmentIds(DB) :
          appointments[b].service_id /= appointments[last.args[1]].service_id

\* C36: deactivate_service on a service with a PENDING or CONFIRMED
\* appointment is refused and changes nothing; on a service without one it
\* succeeds and leaves the service inactive.
C36_DeactivateServiceGuarded ==
    [][(last'.op = "deactivate_service" /\ last'.args[1] \in DOMAIN services)
       => IF \E a \in ActiveAppointments(DB) :
                appointments[a].service_id = last'.args[1]
          THEN /\ last'.outcome = "400_active_appointments"
               /\ UNCHANGED <<departments, services, officers, users, time_slots,
                              appointments, documents, notifications>>
          ELSE /\ last'.outcome = "ok"
               /\ ~services'[last'.args[1]].is_active]_vars

\* deactivate_service has been refused for an active service that has an
\* active appointment
C36_BookedServiceRefused ==
    /\ last.op = "deactivate_service"
    /\ last.outcome = "400_active_appointments"
    /\ services[last.args[1]].is_active
    /\ \E a \in ActiveAppointments(DB) : appointments[a].service_id = last.args[1]

\* C37: deactivate_department on a department with an active service is
\* refused and changes nothing; on a department whose services are all
\* inactive it succeeds and leaves the department inactive.
C37_DeactivateDepartmentGuarded ==
    [][last'.op = "deactivate_department"
       => IF \E s \in DOMAIN services :
                services[s].department_id = last'.args[1] /\ services[s].is_active
          THEN /\ last'.outcome = "400_active_services"
               /\ UNCHANGED <<departments, services, officers, users, time_slots,
                              appointments, documents, notifications>>
          ELSE /\ last'.outcome = "ok"
               /\ ~departments'[last'.args[1]].is_active]_vars

\* deactivate_department has been refused for an active department that has
\* an active and an inactive service
C37_DepartmentWithServiceRefused ==
    /\ last.op = "deactivate_department"
    /\ last.outcome = "400_active_services"
    /\ departments[last.args[1]].is_active
    /\ \E s \in DOMAIN services :
          services[s].department_id = last.args[1] /\ services[s].is_active
    /\ \E s \in DOMAIN services :
          services[s].department_id = last.args[1] /\ ~services[s].is_active

\* cancel_appointment answers a caller who is not the owner, or an
\* appointment that is COMPLETED, CANCELLED or NO_SHOW, with an error and
\* leaves the appointments and the time slots as they were; it succeeds only
\* for the owner of a PENDING or CONFIRMED appointment
CancelIsGuarded ==
    LET a == last'.args[1]
        u == last'.args[2]
    IN (last'.op = "cancel_appointment" /\ a \in AppointmentIds(DB))
       => /\ last'.outcome = "ok"
             => appointments[a].user_id = u /\ appointments[a].status \in ActiveStatus
          /\ (appointments[a].user_id /= u \/ appointments[a].status \notin ActiveStatus)
             => /\ last'.outcome \in {"403", "400_status", "400_inactive_user"}
                /\ UNCHANGED <<appointments, time_slots>>

\* a successful cancel_appointment releases one seat of the appointment's slot
CancelReleasesOneSeat ==
    LET a == last'.args[1] IN
    (last'.op = "cancel_appointment" /\ last'.outcome = "ok" /\ a \in AppointmentIds(DB))
    => LET t == appointments[a].time_slot_id IN
       /\ appointments'[a].status = "CANCELLED"
       /\ time_slots'[t].current_bookings = Max(0, time_slots[t].current_bookings - 1)

\* C38: cancel_appointment succeeds only for the owner of a PENDING or
\* CONFIRMED appointment; any other call is answered with an error and leaves
\* the appointment and its time slot unchanged, so that two successive calls
\* release the seat exactly once: the first releases one seat, the second
\* none.
C38_CancelReleasesOnce ==
    [][CancelIsGuarded /\ CancelReleasesOneSeat]_vars

\* C39: no service is active while its department is inactive.
C39_NoActiveServiceOfInactiveDepartment ==
    \A s \in DOMAIN services :
        services[s].is_active => departments[services[s].department_id].is_active

\* C40: a step that takes an appointment from CONFIRMED to COMPLETED leaves
\* every time slot, and so the current_bookings and is_available of the
\* appointment's slot, as it was.
C40_CompletionKeepsSeat ==
    [][\A a \in AppointmentIds(DB) :
        (appointments[a].status = "CONFIRMED" /\ appointments'[a].status = "COMPLETED")
        => UNCHANGED time_slots]_vars

\* a CONFIRMED appointment has just been completed, as the last audit record
\* says, and its slot still counts bookings
C40_ConfirmedCompleted ==
    /\ last.op = "update_appointment_status"
    /\ last.outcome = "ok"
    /\ audit_logs /= <<>>
    /\ LET rec == audit_logs[Len(audit_logs)] IN
          /\ rec.action = "APPOINTMENT_STATUS_CHANGED"
          /\ rec.record_id = last.args[1]
          /\ rec.old_values = [status |-> "CONFIRMED"]
          /\ rec.new_values = [status |-> "COMPLETED"]
          /\ appointments[rec.record_id].status = "COMPLETED"
          /\ time_slots[appointments[rec.record_id].time_slot_id].current_bookings > 0

====
